---- MODULE Spec2Model ----
(***************************************************************************)
(* Coverage of the changed lines of a pull request.                        *)
(*                                                                         *)
(* The parts of src/src/index.js and of the coverage parser modelled:       *)
(*   - CoverageAnalyzer.getPrChangedLines, the scan of the unified-diff    *)
(*     patch of every file of the pull request, as a state machine that    *)
(*     takes one step per file and one step per patch line (SpecDiff);     *)
(*   - CoverageAnalyzer.calculateChangedLinesCoverage, the join of the     *)
(*     coverage data with the changed-line map, as an operator applied to  *)
(*     inputs drawn from bounded sets (SpecCalc);                          *)
(*   - CoverageParser.parse and parseJestJson, one step per entry, per     *)
(*     statement and per branch of the artifact (SpecParse);               *)
(*   - run and CoverageAnalyzer.createPrComment, one step per call that    *)
(*     can fail (SpecRun);                                                 *)
(*   - HtmlReportGenerator.generateReport of html-report-generator.js, one *)
(*     step per file section and per source line rendered (SpecReport).    *)
(*                                                                         *)
(* Paths and patch lines are strings; prefixes are tested and removed as   *)
(* the JavaScript does it.  A percentage (a double in the code) is kept as *)
(* the exact fraction num/den.                                             *)
(***************************************************************************)
EXTENDS Integers, Sequences, FiniteSets, TLC

VARIABLES
    files,          \* getPrChangedLines: the files listFiles returned
    fileIdx,        \* getPrChangedLines: position of the outer for loop
    lines,          \* getPrChangedLines: file.patch.split('\n') of the current file
    lineIdx,        \* getPrChangedLines: position of the inner for loop
    currentLine,    \* getPrChangedLines: the new-file line cursor
    changedLines,   \* the changed-line map: filename -> set of line numbers
    pc,             \* where the operation under study stands
    coverageData,   \* calculateChangedLinesCoverage: the parsed coverage entries
    results,        \* calculateChangedLinesCoverage: the value returned
    filePath,       \* CoverageParser.parse: the path given
    fileExists,     \* CoverageParser.parse: what fs.existsSync(filePath) answers
    jsonArtifact,   \* parseJestJson: Object.entries of the parsed JSON file
    lcovArtifact,   \* parseLcov: what lcov-parse hands to the callback
    cwd,            \* parseJestJson: process.cwd()
    entryIdx,       \* parseJestJson: position of the loop over the entries
    itemIdx,        \* parseJestJson: position of the statement or branch loop
    lineData,       \* parseJestJson: line -> hit count of the current file
    parsed,         \* CoverageParser.parse: the value returned
    error,          \* CoverageParser.parse: the message of the rejection, "" for none
    hasPullRequest, \* run: github.context.payload.pull_request is present
    minimumCoverage,      \* run: parseFloat of the input minimum-coverage
    failOnBelowThreshold, \* run: the input fail-on-coverage-below-threshold is 'true'
    commentOnPr,          \* run: the input comment-on-pr is 'true'
    generateHtmlReport,   \* run: the input generate-html-report is 'true'
    updateComment,        \* run: the input update-comment is 'true'
    outputs,        \* run: what core.setOutput has set, name -> value
    meetsThreshold, \* run: the verdict of line 282
    failed,         \* run: the message given to core.setFailed, "" for none
    htmlReportInfo, \* run: the HTML report was generated and its artifact prepared
    comments,       \* the comments of the pull request on the hosting service
    calls,          \* createPrComment: the calls made to the comment API
    existingComment, \* createPrComment: id of the comment found, 0 for null
    sourceLines,    \* generateReport: number of lines of the content of a file
    sectionKeys,    \* generateReport: Object.entries(fileResults), the keys
    sectionIdx,     \* generateReport: position of the map over the entries
    renderIdx,      \* generateFileSection: position of the map over the lines
    report          \* generateReport: what the HTML shows

parseVars == <<filePath, fileExists, jsonArtifact, lcovArtifact, cwd, entryIdx,
               itemIdx, lineData, parsed, error>>

runVars == <<hasPullRequest, minimumCoverage, failOnBelowThreshold, commentOnPr,
             generateHtmlReport, updateComment, outputs, meetsThreshold, failed,
             htmlReportInfo, comments, calls, existingComment>>

reportVars == <<sourceLines, sectionKeys, sectionIdx, renderIdx, report>>

vars == <<files, fileIdx, lines, lineIdx, currentLine, changedLines, pc,
          coverageData, results, parseVars, runVars, reportVars>>

diffVars == <<files, fileIdx, lines, lineIdx, currentLine>>
calcVars == <<coverageData, results>>

-----------------------------------------------------------------------------
(* Bounds of the model                                                     *)

MaxPatchLen == 4    \* lines of the patch of a file scanned alone
MaxDetails == 2     \* line records of the coverage data, over all its entries

\* sequences over S of length 0..n
SeqUpTo(S, n) == UNION {[1..k -> S] : k \in 0..n}

-----------------------------------------------------------------------------
(* Strings                                                                 *)

\* String.prototype.startsWith
StartsWith(s, p) == Len(s) >= Len(p) /\ SubSeq(s, 1, Len(p)) = p

CharAt(s, i) == SubSeq(s, i, i)

Digits == {"0", "1", "2", "3", "4", "5", "6", "7", "8", "9"}

DigitVal(c) ==
    CASE c = "0" -> 0 [] c = "1" -> 1 [] c = "2" -> 2 [] c = "3" -> 3
      [] c = "4" -> 4 [] c = "5" -> 5 [] c = "6" -> 6 [] c = "7" -> 7
      [] c = "8" -> 8 [] c = "9" -> 9

\* parseInt of a string of decimal digits
RECURSIVE parseInt(_)
parseInt(s) ==
    IF Len(s) = 0 THEN 0
    ELSE 10 * parseInt(SubSeq(s, 1, Len(s) - 1)) + DigitVal(CharAt(s, Len(s)))

Min(S) == CHOOSE x \in S : \A y \in S : x <= y

-----------------------------------------------------------------------------
(* getPrChangedLines: the scan of one patch line (index.js 38-51)          *)

\* line.match(/\+(\d+)/): the digits captured by the first match, "" when
\* the line has no match (match is null)
matchPlusDigits(line) ==
    LET starts == {i \in 1..(Len(line) - 1) :
                      CharAt(line, i) = "+" /\ CharAt(line, i + 1) \in Digits}
    IN  IF starts = {} THEN ""
        ELSE LET i == Min(starts)
                 ends == {j \in (i + 1)..Len(line) :
                             \A k \in (i + 1)..j : CharAt(line, k) \in Digits}
                 j == CHOOSE e \in ends : \A f \in ends : f <= e
             IN  SubSeq(line, i + 1, j)

\* the header without a start that sends the cursor back to 0
scanHeaderResets(st, line) ==
    LET match == matchPlusDigits(line)
    IN  [st EXCEPT !.currentLine = IF match # "" THEN parseInt(match) ELSE 0]

\* the hunk header branch, lines 38-43
scanHeader(st, line) ==
    LET match == matchPlusDigits(line)
    IN  IF match # "" THEN [st EXCEPT !.currentLine = parseInt(match)] ELSE st

\* the added-line test of line 44
isAddedLine(line) == StartsWith(line, "+") /\ ~StartsWith(line, "+++")

\* the context-line test that no line beginning with "+" passes
isContextLineNotPlus(line) ==
    ~StartsWith(line, "-") /\ ~StartsWith(line, "\\") /\ ~StartsWith(line, "+")

\* the context-line test of line 48
isContextLine(line) == ~StartsWith(line, "-") /\ ~StartsWith(line, "\\")

\* the scan with '-' lines counted as lines of the new file
scanLineRemovedAdvances(st, line) ==
    IF StartsWith(line, "@@") THEN scanHeader(st, line)
    ELSE IF isAddedLine(line)
         THEN [currentLine |-> st.currentLine + 1,
               changed |-> st.changed \cup {st.currentLine}]
         ELSE IF ~StartsWith(line, "\\")
              THEN [st EXCEPT !.currentLine = st.currentLine + 1]
              ELSE st

\* the scan with a context line recorded like an added line
scanLineContextRecorded(st, line) ==
    IF StartsWith(line, "@@") THEN scanHeader(st, line)
    ELSE IF StartsWith(line, "+") \/ isContextLine(line)
         THEN [currentLine |-> st.currentLine + 1,
               changed |-> st.changed \cup {st.currentLine}]
         ELSE st

\* one pass of the inner loop, lines 37-52: st is the cursor and the set
\* changedLines[filename]
scanLine(st, line) ==
    IF StartsWith(line, "@@") THEN scanHeader(st, line)
    ELSE IF isAddedLine(line)
         THEN [currentLine |-> st.currentLine + 1,
               changed |-> st.changed \cup {st.currentLine}]
         ELSE IF isContextLine(line)
              THEN [st EXCEPT !.currentLine = st.currentLine + 1]
              ELSE st

-----------------------------------------------------------------------------
(* getPrChangedLines: inputs                                               *)

\* patch lines, one or more of each kind the scan tells apart
PatchLineChoices ==
    {"@@ -1,2 +1,3 @@", "@@ -9 +12,2 @@ x+5", "@@ -1 +0,0 @@", "@@ bad",
     "+added", "+++x", "-removed", "\\ No newline at end of file", " context", ""}

\* patches of a file scanned together with other files
PatchSamples ==
    {<<>>,
     <<"@@ -1,2 +1,3 @@", " context", "+added", "+added", " context">>,
     <<"@@ -1 +0,0 @@", "-removed">>}

Filenames == {"a.js", "src/b.js"}

Statuses == {"added", "modified", "removed", "renamed"}

\* a pull request of one file with any patch of up to MaxPatchLen lines (an
\* empty patch is falsy, like a missing one), or of files with different
\* names and the sample patches
OneFileInputs ==
    {<<[filename |-> "a.js", status |-> s, patch |-> p]>> :
        s \in {"modified"}, p \in SeqUpTo(PatchLineChoices, MaxPatchLen)}

\* the lines of a patch that look like the file header of a diff
FileHeaderLineChoices == {"@@ -1,2 +1,3 @@", "+++x", "--- y", "+added"}

MaxFileHeaderPatchLen == 3

\* a pull request of one file whose patch is made of such lines
FileHeaderInputs ==
    {<<[filename |-> "a.js", status |-> "modified", patch |-> p]>> :
        p \in SeqUpTo(FileHeaderLineChoices, MaxFileHeaderPatchLen)}

ManyFileInputs ==
    {fs \in SeqUpTo([filename : Filenames, status : Statuses, patch : PatchSamples],
                    Cardinality(Filenames)) :
        \A i, j \in 1..Len(fs) : i # j => fs[i].filename # fs[j].filename}

-----------------------------------------------------------------------------
(* getPrChangedLines: the loops (index.js 25-56)                           *)

\* changedLines[filename] = value
SetKey(map, key, value) ==
    [k \in (DOMAIN map) \cup {key} |-> IF k = key THEN value ELSE map[k]]

EmptyMap == [k \in {} |-> {}]

NoResults == [totalLines |-> 0, coveredLines |-> 0,
              coverage |-> [num |-> 0, den |-> 0], fileResults |-> EmptyMap]

\* lines 30-31: the key of the file in the map is its filename as listed
diffKey(filename) == filename

\* line 33: the patch is scanned when it is truthy
hasPatch(file) == file.patch # <<>>

\* a file without a patch skipped like a removed one
isSkippedWithoutPatch(file) == file.status = "removed" \/ ~hasPatch(file)

\* line 28: a removed file is skipped
isSkipped(file) == file.status = "removed"

\* CoverageParser is not running
ParseIdle ==
    /\ filePath = ""
    /\ fileExists = FALSE
    /\ jsonArtifact = [syntaxError |-> FALSE, entries |-> <<>>]
    /\ lcovArtifact = [err |-> FALSE, data |-> <<>>]
    /\ cwd = ""
    /\ entryIdx = 1
    /\ itemIdx = 1
    /\ lineData = EmptyMap
    /\ parsed = <<>>
    /\ error = ""

\* a percentage that is not a number: parseFloat of text without a number
NaN == [num |-> 0, den |-> 0]

\* run is not running
RunIdle ==
    /\ hasPullRequest = FALSE
    /\ minimumCoverage = NaN
    /\ failOnBelowThreshold = FALSE
    /\ commentOnPr = FALSE
    /\ generateHtmlReport = FALSE
    /\ updateComment = FALSE
    /\ outputs = EmptyMap
    /\ meetsThreshold = FALSE
    /\ failed = ""
    /\ htmlReportInfo = FALSE
    /\ comments = <<>>
    /\ calls = <<>>
    /\ existingComment = 0

\* the report before anything is rendered
NoReport == [summaryBadge |-> "", summaryIcon |-> "", sections |-> EmptyMap]

\* generateReport is not running
ReportIdle ==
    /\ sourceLines = 0
    /\ sectionKeys = <<>>
    /\ sectionIdx = 1
    /\ renderIdx = 1
    /\ report = NoReport

InitDiff ==
    /\ files \in OneFileInputs \cup ManyFileInputs \cup FileHeaderInputs
    /\ fileIdx = 1
    /\ lines = <<>>
    /\ lineIdx = 1
    /\ currentLine = 0
    /\ changedLines = EmptyMap
    /\ pc = "files"
    /\ coverageData = <<>>
    /\ results = NoResults
    /\ ParseIdle
    /\ RunIdle
    /\ ReportIdle

\* lines 27-28: continue
SkipRemoved ==
    /\ pc = "files"
    /\ fileIdx <= Len(files)
    /\ isSkipped(files[fileIdx])
    /\ fileIdx' = fileIdx + 1
    /\ UNCHANGED <<files, lines, lineIdx, currentLine, changedLines, pc, calcVars, parseVars, runVars, reportVars>>

\* lines 30-35 for a file with a patch
BeginPatch ==
    /\ pc = "files"
    /\ fileIdx <= Len(files)
    /\ ~isSkipped(files[fileIdx])
    /\ hasPatch(files[fileIdx])
    /\ changedLines' = SetKey(changedLines, diffKey(files[fileIdx].filename), {})
    /\ lines' = files[fileIdx].patch
    /\ lineIdx' = 1
    /\ currentLine' = 0
    /\ pc' = "lines"
    /\ UNCHANGED <<files, fileIdx, calcVars, parseVars, runVars, reportVars>>

\* lines 30-33 for a file without a patch
NoPatch ==
    /\ pc = "files"
    /\ fileIdx <= Len(files)
    /\ ~isSkipped(files[fileIdx])
    /\ ~hasPatch(files[fileIdx])
    /\ changedLines' = SetKey(changedLines, diffKey(files[fileIdx].filename), {})
    /\ fileIdx' = fileIdx + 1
    /\ UNCHANGED <<files, lines, lineIdx, currentLine, pc, calcVars, parseVars, runVars, reportVars>>

\* lines 37-52: one patch line
ScanLine ==
    /\ pc = "lines"
    /\ lineIdx <= Len(lines)
    /\ LET filename == diffKey(files[fileIdx].filename)
           st == scanLine([currentLine |-> currentLine,
                           changed |-> changedLines[filename]], lines[lineIdx])
       IN  /\ currentLine' = st.currentLine
           /\ changedLines' = SetKey(changedLines, filename, st.changed)
    /\ lineIdx' = lineIdx + 1
    /\ UNCHANGED <<files, fileIdx, lines, pc, calcVars, parseVars, runVars, reportVars>>

\* the inner loop ends
EndPatch ==
    /\ pc = "lines"
    /\ lineIdx > Len(lines)
    /\ fileIdx' = fileIdx + 1
    /\ pc' = "files"
    /\ UNCHANGED <<files, lines, lineIdx, currentLine, changedLines, calcVars, parseVars, runVars, reportVars>>

\* line 56
ReturnChangedLines ==
    /\ pc = "files"
    /\ fileIdx > Len(files)
    /\ pc' = "returned"
    /\ UNCHANGED <<files, fileIdx, lines, lineIdx, currentLine, changedLines, calcVars, parseVars, runVars, reportVars>>

NextDiff ==
    \/ SkipRemoved
    \/ BeginPatch
    \/ NoPatch
    \/ ScanLine
    \/ EndPatch
    \/ ReturnChangedLines

SpecDiff == InitDiff /\ [][NextDiff]_vars

-----------------------------------------------------------------------------
(* calculateChangedLinesCoverage (index.js 62-109)                         *)

\* file.file.replace(/^\.\//, ''), line 68
normalizePath(path) ==
    IF StartsWith(path, "./") THEN SubSeq(path, 3, Len(path)) ELSE path

\* (covered / total) * 100 as a fraction, lines 96 and 101
Percent(covered, total) == [num |-> covered * 100, den |-> total]

Hundred == [num |-> 100, den |-> 1]

\* a covered line counted whether or not it is a changed line
countLineAnyHit(acc, lineInfo, changedLinesInFile) ==
    LET hit == IF lineInfo.hit > 0 THEN 1 ELSE 0
        in == IF lineInfo.line \in changedLinesInFile THEN 1 ELSE 0
    IN  [fileTotalLines |-> acc.fileTotalLines + in,
         fileCoveredLines |-> acc.fileCoveredLines + hit,
         totalChangedLines |-> acc.totalChangedLines + in,
         coveredChangedLines |-> acc.coveredChangedLines + hit]

\* one pass of the loop over file.lines.details, lines 80-88
countLine(acc, lineInfo, changedLinesInFile) ==
    IF lineInfo.line \in changedLinesInFile
    THEN IF lineInfo.hit > 0
         THEN [fileTotalLines |-> acc.fileTotalLines + 1,
               fileCoveredLines |-> acc.fileCoveredLines + 1,
               totalChangedLines |-> acc.totalChangedLines + 1,
               coveredChangedLines |-> acc.coveredChangedLines + 1]
         ELSE [acc EXCEPT !.fileTotalLines = acc.fileTotalLines + 1,
                          !.totalChangedLines = acc.totalChangedLines + 1]
    ELSE acc

\* the loop over file.lines.details, lines 79-89
RECURSIVE countLines(_, _, _)
countLines(acc, details, changedLinesInFile) ==
    IF details = <<>> THEN acc
    ELSE countLines(countLine(acc, Head(details), changedLinesInFile),
                    Tail(details), changedLinesInFile)

\* the file result stored whatever fileTotalLines is
storeFileResultAlways(fileResults, normalizedPath, acc) ==
    SetKey(fileResults, normalizedPath,
           [totalLines |-> acc.fileTotalLines,
            coveredLines |-> acc.fileCoveredLines,
            coverage |-> Percent(acc.fileCoveredLines, acc.fileTotalLines)])

\* lines 92-98
storeFileResult(fileResults, normalizedPath, acc) ==
    IF acc.fileTotalLines > 0
    THEN SetKey(fileResults, normalizedPath,
                [totalLines |-> acc.fileTotalLines,
                 coveredLines |-> acc.fileCoveredLines,
                 coverage |-> Percent(acc.fileCoveredLines, acc.fileTotalLines)])
    ELSE fileResults

\* the names a plain object inherits: changedLines is created as {} (line
\* 25), so a lookup of one of them that is not a key of its own yields a
\* property of Object.prototype, which is neither undefined nor a Set
ObjectPrototypeKeys == {"constructor", "toString"}

\* line 69: changedLines[normalizedPath]
changedLinesOf(changed, normalizedPath) ==
    IF normalizedPath \in DOMAIN changed
    THEN [kind |-> "Set", set |-> changed[normalizedPath]]
    ELSE IF normalizedPath \in ObjectPrototypeKeys
         THEN [kind |-> "inherited", set |-> {}]
         ELSE [kind |-> "undefined", set |-> {}]

\* one pass of the loop over coverageData, lines 67-99: st holds
\* totalChangedLines, coveredChangedLines and fileResults, and threw once
\* a pass has thrown. An inherited value has a size that is undefined, so
\* line 71 does not skip it, and no has(): the first line record throws at
\* line 80.
calculateFile(st, file, changed) ==
    LET normalizedPath == normalizePath(file.file)
        changedLinesInFile == changedLinesOf(changed, normalizedPath)
    IN  IF \/ changedLinesInFile.kind = "undefined"
           \/ changedLinesInFile.kind = "Set" /\ changedLinesInFile.set = {}
        THEN st
        ELSE IF changedLinesInFile.kind = "inherited"
        THEN [st EXCEPT !.threw = file.hasDetails /\ file.details # <<>>]
        ELSE LET start == [fileTotalLines |-> 0, fileCoveredLines |-> 0,
                           totalChangedLines |-> st.totalChangedLines,
                           coveredChangedLines |-> st.coveredChangedLines]
                 acc == IF file.hasDetails
                        THEN countLines(start, file.details, changedLinesInFile.set)
                        ELSE start
             IN  [totalChangedLines |-> acc.totalChangedLines,
                  coveredChangedLines |-> acc.coveredChangedLines,
                  fileResults |-> storeFileResult(st.fileResults, normalizedPath, acc),
                  threw |-> FALSE]

\* the loop over coverageData, which a throw leaves
RECURSIVE calculateFiles(_, _, _)
calculateFiles(st, data, changed) ==
    IF data = <<>> \/ st.threw THEN st
    ELSE calculateFiles(calculateFile(st, Head(data), changed), Tail(data), changed)

\* lines 63-65
calculateStart ==
    [totalChangedLines |-> 0, coveredChangedLines |-> 0, fileResults |-> EmptyMap,
     threw |-> FALSE]

\* the call ends in a TypeError and returns nothing
calculateThrows(data, changed) == calculateFiles(calculateStart, data, changed).threw

\* an aggregate of 0 when no changed line has coverage data
overallCoverageZero(covered, total) ==
    IF total > 0 THEN Percent(covered, total) ELSE [num |-> 0, den |-> 1]

\* line 101
overallCoverage(covered, total) ==
    IF total > 0 THEN Percent(covered, total) ELSE Hundred

calculateChangedLinesCoverage(data, changed) ==
    LET st == calculateFiles(calculateStart, data, changed)
    IN  [totalLines |-> st.totalChangedLines,
         coveredLines |-> st.coveredChangedLines,
         coverage |-> overallCoverage(st.coveredChangedLines, st.totalChangedLines),
         fileResults |-> st.fileResults]

-----------------------------------------------------------------------------
(* calculateChangedLinesCoverage: inputs                                   *)

CoveragePaths == {"a.js", "./a.js", "src/b.js"}

LineNumbers == {1, 2}

HitCounts == {0, 3}

LineInfos == [line : LineNumbers, hit : HitCounts]

\* a coverage entry: its path and its line records; hasDetails is false for
\* an entry without lines.details
\* a file of the repository named like a property every object inherits
InheritedName == "constructor"

CoverageEntries ==
    [file : CoveragePaths \cup {InheritedName}, hasDetails : {TRUE},
     details : SeqUpTo(LineInfos, MaxDetails)]
        \cup [file : CoveragePaths \cup {InheritedName}, hasDetails : {FALSE},
              details : {<<>>}]

\* the coverage data made of entries for the paths P, each path once, that
\* hold up to r line records in all
RECURSIVE CoverageInputsOf(_, _)
CoverageInputsOf(P, r) ==
    {<<>>} \cup
    UNION {{<<e>> \o rest : rest \in CoverageInputsOf(P \ {e.file}, r - Len(e.details))} :
              e \in {x \in CoverageEntries : x.file \in P /\ Len(x.details) <= r}}

\* the entries of a file named like an inherited property, alone or after
\* a file of the pull request
InheritedNameInputs == CoverageInputsOf({InheritedName, "a.js"}, MaxDetails)

CoverageInputs == CoverageInputsOf(CoveragePaths, MaxDetails) \cup InheritedNameInputs

\* changed-line maps: any of the keys of a pull request present, each with
\* one of the sets, or one key that begins with "./"
ChangedKeys == {"a.js", "src/b.js"}

ChangedSets == {{}, {1}, {1, 2}}

ChangedLineMaps ==
    UNION {[K -> ChangedSets] : K \in SUBSET ChangedKeys}
        \cup [{"./a.js"} -> ChangedSets]

InitCalc ==
    /\ coverageData \in CoverageInputs
    /\ changedLines \in ChangedLineMaps
    /\ results = NoResults
    /\ pc = "call"
    /\ files = <<>>
    /\ fileIdx = 1
    /\ lines = <<>>
    /\ lineIdx = 1
    /\ currentLine = 0
    /\ ParseIdle
    /\ RunIdle
    /\ ReportIdle

Calculate ==
    /\ pc = "call"
    /\ IF calculateThrows(coverageData, changedLines)
       THEN /\ pc' = "threw"
            /\ UNCHANGED results
       ELSE /\ results' = calculateChangedLinesCoverage(coverageData, changedLines)
            /\ pc' = "calculated"
    /\ UNCHANGED <<diffVars, changedLines, coverageData, parseVars, runVars, reportVars>>

NextCalc == Calculate

SpecCalc == InitCalc /\ [][NextCalc]_vars


-----------------------------------------------------------------------------
(* CoverageParser (src/unnamed/part_001, required as ./coverage-parser)    *)

MaxStatements == 2  \* statements of the statementMap of a file parsed alone
MaxBranches == 1    \* branches of the branchMap of a file parsed alone

\* String.prototype.endsWith
EndsWith(s, p) == Len(s) >= Len(p) /\ SubSeq(s, Len(s) - Len(p) + 1, Len(s)) = p

\* the positions at which p occurs in s
Occurrences(s, p) ==
    {i \in 1..(Len(s) - Len(p) + 1) : SubSeq(s, i, i + Len(p) - 1) = p}

\* String.prototype.includes
Includes(s, p) == Occurrences(s, p) # {}

\* s.replace(p, '') for a string p: the first occurrence of p is removed
removeFirst(s, p) ==
    IF Occurrences(s, p) = {} THEN s
    ELSE LET i == Min(Occurrences(s, p))
         IN  SubSeq(s, 1, i - 1) \o SubSeq(s, i + Len(p), Len(s))

\* s.replace(/^\//, '')
removeLeadingSlash(s) == IF StartsWith(s, "/") THEN SubSeq(s, 2, Len(s)) ELSE s

\* line 65: the file path of a result entry
jestFilePath(file, dir) == removeLeadingSlash(removeFirst(file, dir))

\* line 40: data.s[statementId] || 0
statementHits(statement) == IF statement.hasHit THEN statement.hit ELSE 0

\* the statement whose hits are written to its lines whatever they hold
applyStatementLastWrite(data, statement) ==
    [l \in (DOMAIN data) \cup (statement.start..statement.end) |->
        IF l \in statement.start..statement.end THEN statementHits(statement)
        ELSE data[l]]

\* lines 38-47: one statement marks all its lines
applyStatement(data, statement) ==
    LET hits == statementHits(statement)
    IN  [l \in (DOMAIN data) \cup (statement.start..statement.end) |->
            IF /\ l \in statement.start..statement.end
               /\ (l \notin DOMAIN data \/ data[l] = 0 \/ data[l] < hits)
            THEN hits
            ELSE data[l]]

\* line 56: branchHits && branchHits.some(h => h > 0)
hasHits(branch) ==
    branch.hasArms /\ \E k \in 1..Len(branch.arms) : branch.arms[k] > 0

\* the branch that sets its line to 1 whatever the line holds
applyBranchAlways(data, branch) ==
    IF hasHits(branch) THEN SetKey(data, branch.line, 1) ELSE data

\* lines 54-60: one branch
applyBranch(data, branch) ==
    IF hasHits(branch) /\ (branch.line \notin DOMAIN data \/ data[branch.line] = 0)
    THEN SetKey(data, branch.line, 1)
    ELSE data

\* Object.keys(lineData).map(...), lines 67-70: integer keys come in
\* ascending order
RECURSIVE lineDetails(_, _)
lineDetails(data, keys) ==
    IF keys = {} THEN <<>>
    ELSE LET l == Min(keys)
         IN  <<[line |-> l, hit |-> data[l]]>> \o lineDetails(data, keys \ {l})

\* lines 64-72: the entry pushed for a file
fileCoverage(file, dir, data) ==
    [file |-> jestFilePath(file, dir), hasDetails |-> TRUE,
     details |-> lineDetails(data, DOMAIN data)]

\* the "total" entry parsed like a file
isTotalNever(file) == FALSE

\* line 31
isTotal(file) == file = "total"

\* a name that ends in neither extension is parsed as LCOV
detectFormatLcovDefault(path) ==
    IF EndsWith(path, ".json") /\ ~Includes(path, "lcov") THEN "json" ELSE "lcov"

\* lines 86-92: the parser a path is routed to
detectFormat(path) ==
    IF EndsWith(path, ".info") \/ Includes(path, "lcov") THEN "lcov"
    ELSE IF EndsWith(path, ".json") THEN "json"
    ELSE "unsupported"

NotFoundMessage == "Coverage file not found: "

UnsupportedMessage ==
    "Unsupported coverage file format. Please use LCOV (.info) or Jest JSON format."

-----------------------------------------------------------------------------
(* CoverageParser: inputs                                                  *)

PathChoices ==
    {"coverage/lcov.info", "cov.info", "coverage/coverage-final.json",
     "coverage/lcov-report/coverage-final.json", "lcov.json", "coverage.xml",
     "mylcov", "coverage.json.bak"}

JsonPath == "coverage/coverage-final.json"

\* a statement spans lines start..end; hasHit is false when data.s has no
\* count for it
StatementChoices ==
    [start : {1}, end : {1, 2}, hasHit : {TRUE}, hit : {0, 1, 3}]
        \cup [start : {1}, end : {1, 2}, hasHit : {FALSE}, hit : {0}]

\* hasArms is false when data.b has no list for the branch
BranchChoices ==
    [line : {1, 3}, hasArms : {TRUE}, arms : {<<0, 0>>, <<0, 2>>}]
        \cup [line : {1, 3}, hasArms : {FALSE}, arms : {<<>>}]

\* the data of a file: hasStatements is data.s && data.statementMap,
\* hasBranches is data.b && data.branchMap
FileDatas ==
    {[hasStatements |-> hs, statements |-> ss, hasBranches |-> hb, branches |-> bs] :
        hs \in {TRUE}, ss \in SeqUpTo(StatementChoices, MaxStatements),
        hb \in {TRUE}, bs \in SeqUpTo(BranchChoices, MaxBranches)}
    \cup
    {[hasStatements |-> FALSE, statements |-> <<>>, hasBranches |-> hb, branches |-> bs] :
        hb \in BOOLEAN,
        bs \in {<<>>, <<[line |-> 1, hasArms |-> TRUE, arms |-> <<0, 2>>]>>}}

\* the data of the files of an artifact of several keys
DataSamples ==
    {[hasStatements |-> TRUE,
      statements |-> <<[start |-> 1, end |-> 2, hasHit |-> TRUE, hit |-> 0],
                       [start |-> 2, end |-> 2, hasHit |-> TRUE, hit |-> 3]>>,
      hasBranches |-> TRUE,
      branches |-> <<[line |-> 1, hasArms |-> TRUE, arms |-> <<1, 0>>]>>],
     [hasStatements |-> FALSE, statements |-> <<>>,
      hasBranches |-> FALSE, branches |-> <<>>]}

JsonKeys == {"total", "/w/src/a.js", "src/b.js", "/x/w/c.js"}

CwdChoices == {"/w", "/x"}

OneFileArtifacts ==
    {<<[file |-> "/w/src/a.js", data |-> d]>> : d \in FileDatas}

ManyKeyArtifacts ==
    {es \in SeqUpTo([file : JsonKeys, data : DataSamples], Cardinality(JsonKeys) - 1) :
        \A i, j \in 1..Len(es) : i # j => es[i].file # es[j].file}

LcovSamples ==
    {<<>>,
     <<[file |-> "/w/src/a.js", hasDetails |-> TRUE,
        details |-> <<[line |-> 1, hit |-> 3]>>]>>}

\* a call of parse: any path, existing or not, with sample content; or the
\* JSON path with a file of any data, or with several keys
ParseInputs ==
    {[filePath |-> f, fileExists |-> x, dir |-> "/w",
      json |-> [syntaxError |-> FALSE, entries |-> <<>>],
      lcov |-> [err |-> e, data |-> l]] :
        f \in PathChoices, x \in BOOLEAN, e \in BOOLEAN, l \in LcovSamples}
    \cup
    {[filePath |-> JsonPath, fileExists |-> TRUE, dir |-> "/w",
      json |-> [syntaxError |-> FALSE, entries |-> a],
      lcov |-> [err |-> FALSE, data |-> <<>>]] : a \in OneFileArtifacts}
    \cup
    {[filePath |-> JsonPath, fileExists |-> TRUE, dir |-> d,
      json |-> [syntaxError |-> x, entries |-> a],
      lcov |-> [err |-> FALSE, data |-> <<>>]] :
        d \in CwdChoices, x \in BOOLEAN, a \in ManyKeyArtifacts}


-----------------------------------------------------------------------------
(* CoverageParser.parse (81-93) and parseJestJson (26-76), step by step    *)

InitParse ==
    /\ \E in \in ParseInputs :
          /\ filePath = in.filePath
          /\ fileExists = in.fileExists
          /\ cwd = in.dir
          /\ jsonArtifact = in.json
          /\ lcovArtifact = in.lcov
    /\ entryIdx = 1
    /\ itemIdx = 1
    /\ lineData = EmptyMap
    /\ parsed = <<>>
    /\ error = ""
    /\ pc = "parse"
    /\ files = <<>>
    /\ fileIdx = 1
    /\ lines = <<>>
    /\ lineIdx = 1
    /\ currentLine = 0
    /\ changedLines = EmptyMap
    /\ coverageData = <<>>
    /\ results = NoResults
    /\ RunIdle
    /\ ReportIdle

parseFrame == <<diffVars, changedLines, calcVars, filePath, fileExists, jsonArtifact,
                lcovArtifact, cwd, runVars, reportVars>>

\* lines 82-84
ParseNotFound ==
    /\ pc = "parse"
    /\ ~fileExists
    /\ error' = NotFoundMessage \o filePath
    /\ pc' = "rejected"
    /\ UNCHANGED <<parseFrame, entryIdx, itemIdx, lineData, parsed>>

\* lines 90-91
ParseUnsupported ==
    /\ pc = "parse"
    /\ fileExists
    /\ detectFormat(filePath) = "unsupported"
    /\ error' = UnsupportedMessage
    /\ pc' = "rejected"
    /\ UNCHANGED <<parseFrame, entryIdx, itemIdx, lineData, parsed>>

\* lines 86-87: parseLcov is called
ParseLcovCall ==
    /\ pc = "parse"
    /\ fileExists
    /\ detectFormat(filePath) = "lcov"
    /\ pc' = "parseLcov"
    /\ UNCHANGED <<parseFrame, entryIdx, itemIdx, lineData, parsed, error>>

\* lines 13-19: the callback of lcov-parse rejects or resolves with its data
ParseLcovDone ==
    /\ pc = "parseLcov"
    /\ IF lcovArtifact.err
       THEN /\ error' = "Failed to parse string"
            /\ pc' = "rejected"
            /\ UNCHANGED parsed
       ELSE /\ parsed' = lcovArtifact.data
            /\ pc' = "parsed"
            /\ UNCHANGED error
    /\ UNCHANGED <<parseFrame, entryIdx, itemIdx, lineData>>

\* lines 88-89 and 27-28: parseJestJson is called and reads the file
ParseJestCall ==
    /\ pc = "parse"
    /\ fileExists
    /\ detectFormat(filePath) = "json"
    /\ IF jsonArtifact.syntaxError
       THEN /\ error' = "Unexpected token"
            /\ pc' = "rejected"
            /\ UNCHANGED <<entryIdx, parsed>>
       ELSE /\ parsed' = <<>>
            /\ entryIdx' = 1
            /\ pc' = "entries"
            /\ UNCHANGED error
    /\ UNCHANGED <<parseFrame, itemIdx, lineData>>

\* lines 30-31: continue
JestSkipTotal ==
    /\ pc = "entries"
    /\ entryIdx <= Len(jsonArtifact.entries)
    /\ isTotal(jsonArtifact.entries[entryIdx].file)
    /\ entryIdx' = entryIdx + 1
    /\ UNCHANGED <<parseFrame, itemIdx, lineData, parsed, error, pc>>

\* lines 33-36
JestBeginFile ==
    /\ pc = "entries"
    /\ entryIdx <= Len(jsonArtifact.entries)
    /\ ~isTotal(jsonArtifact.entries[entryIdx].file)
    /\ lineData' = EmptyMap
    /\ itemIdx' = 1
    /\ pc' = "statements"
    /\ UNCHANGED <<parseFrame, entryIdx, parsed, error>>

\* lines 37-48: one statement
JestStatement ==
    /\ pc = "statements"
    /\ LET data == jsonArtifact.entries[entryIdx].data
       IN  /\ data.hasStatements
           /\ itemIdx <= Len(data.statements)
           /\ lineData' = applyStatement(lineData, data.statements[itemIdx])
    /\ itemIdx' = itemIdx + 1
    /\ UNCHANGED <<parseFrame, entryIdx, parsed, error, pc>>

\* lines 49-52: the statements are done, or there are none
JestStatementsDone ==
    /\ pc = "statements"
    /\ LET data == jsonArtifact.entries[entryIdx].data
       IN  ~data.hasStatements \/ itemIdx > Len(data.statements)
    /\ itemIdx' = 1
    /\ pc' = "branches"
    /\ UNCHANGED <<parseFrame, entryIdx, lineData, parsed, error>>

\* lines 53-61: one branch
JestBranch ==
    /\ pc = "branches"
    /\ LET data == jsonArtifact.entries[entryIdx].data
       IN  /\ data.hasBranches
           /\ itemIdx <= Len(data.branches)
           /\ lineData' = applyBranch(lineData, data.branches[itemIdx])
    /\ itemIdx' = itemIdx + 1
    /\ UNCHANGED <<parseFrame, entryIdx, parsed, error, pc>>

\* lines 64-72: the entry of the file is pushed
JestPush ==
    /\ pc = "branches"
    /\ LET data == jsonArtifact.entries[entryIdx].data
       IN  ~data.hasBranches \/ itemIdx > Len(data.branches)
    /\ parsed' = Append(parsed,
                        fileCoverage(jsonArtifact.entries[entryIdx].file, cwd, lineData))
    /\ entryIdx' = entryIdx + 1
    /\ pc' = "entries"
    /\ UNCHANGED <<parseFrame, itemIdx, lineData, error>>

\* line 75
JestReturn ==
    /\ pc = "entries"
    /\ entryIdx > Len(jsonArtifact.entries)
    /\ pc' = "parsed"
    /\ UNCHANGED <<parseFrame, entryIdx, itemIdx, lineData, parsed, error>>

NextParse ==
    \/ ParseNotFound
    \/ ParseUnsupported
    \/ ParseLcovCall
    \/ ParseLcovDone
    \/ ParseJestCall
    \/ JestSkipTotal
    \/ JestBeginFile
    \/ JestStatement
    \/ JestStatementsDone
    \/ JestBranch
    \/ JestPush
    \/ JestReturn

SpecParse == InitParse /\ [][NextParse]_vars

-----------------------------------------------------------------------------
(* The calls of run as operators                                           *)

\* the inner loop of getPrChangedLines over the lines of a patch, 37-52
RECURSIVE scanPatch(_, _)
scanPatch(st, patch) ==
    IF patch = <<>> THEN st ELSE scanPatch(scanLine(st, Head(patch)), Tail(patch))

\* one pass of the loop of getPrChangedLines over the files, 27-54
changedLinesWithFile(map, file) ==
    IF isSkipped(file) THEN map
    ELSE SetKey(map, diffKey(file.filename),
                IF hasPatch(file)
                THEN scanPatch([currentLine |-> 0, changed |-> {}], file.patch).changed
                ELSE {})

RECURSIVE changedLinesOfFiles(_, _)
changedLinesOfFiles(map, fs) ==
    IF fs = <<>> THEN map
    ELSE changedLinesOfFiles(changedLinesWithFile(map, Head(fs)), Tail(fs))

\* index.js 25-56
getPrChangedLines(fs) == changedLinesOfFiles(EmptyMap, fs)

\* the loop of parseJestJson over the statements, 37-48
RECURSIVE applyStatements(_, _)
applyStatements(data, statements) ==
    IF statements = <<>> THEN data
    ELSE applyStatements(applyStatement(data, Head(statements)), Tail(statements))

\* the loop of parseJestJson over the branches, 53-61
RECURSIVE applyBranches(_, _)
applyBranches(data, branches) ==
    IF branches = <<>> THEN data
    ELSE applyBranches(applyBranch(data, Head(branches)), Tail(branches))

\* lines 33-62: the lineData of a file
jestLineData(data) ==
    LET statementLines == IF data.hasStatements
                          THEN applyStatements(EmptyMap, data.statements)
                          ELSE EmptyMap
    IN  IF data.hasBranches THEN applyBranches(statementLines, data.branches)
        ELSE statementLines

\* the loop of parseJestJson over the entries, 30-73
RECURSIVE parseJestEntries(_, _)
parseJestEntries(entries, dir) ==
    IF entries = <<>> THEN <<>>
    ELSE IF isTotal(Head(entries).file) THEN parseJestEntries(Tail(entries), dir)
    ELSE <<fileCoverage(Head(entries).file, dir, jestLineData(Head(entries).data))>>
            \o parseJestEntries(Tail(entries), dir)

\* a parse that returns no entries where it should throw
parseLenient(path, exists, json, lcov, dir) ==
    IF exists /\ detectFormat(path) = "lcov" /\ ~lcov.err
    THEN [ok |-> TRUE, data |-> lcov.data, message |-> ""]
    ELSE IF exists /\ detectFormat(path) = "json" /\ ~json.syntaxError
    THEN [ok |-> TRUE, data |-> parseJestEntries(json.entries, dir), message |-> ""]
    ELSE [ok |-> TRUE, data |-> <<>>, message |-> ""]

\* CoverageParser.parse, 81-93: what the call returns or throws
parse(path, exists, json, lcov, dir) ==
    IF ~exists
    THEN [ok |-> FALSE, data |-> <<>>, message |-> NotFoundMessage \o path]
    ELSE IF detectFormat(path) = "lcov"
    THEN (IF lcov.err
          THEN [ok |-> FALSE, data |-> <<>>, message |-> "Failed to parse string"]
          ELSE [ok |-> TRUE, data |-> lcov.data, message |-> ""])
    ELSE IF detectFormat(path) = "json"
    THEN (IF json.syntaxError
          THEN [ok |-> FALSE, data |-> <<>>, message |-> "Unexpected token"]
          ELSE [ok |-> TRUE, data |-> parseJestEntries(json.entries, dir), message |-> ""])
    ELSE [ok |-> FALSE, data |-> <<>>, message |-> UnsupportedMessage]

\* Number.prototype.toFixed(2), as a number of hundredths: the nearest one,
\* the larger of two that are equally near
toFixed2(coverage) == (200 * coverage.num + coverage.den) \div (2 * coverage.den)

\* the comparison that leaves a coverage equal to the minimum below it
moreThan(coverage, minimum) ==
    minimum.den # 0 /\ coverage.num * minimum.den > minimum.num * coverage.den

\* coverage >= minimum, line 282: false when the minimum is not a number
atLeast(coverage, minimum) ==
    minimum.den # 0 /\ coverage.num * minimum.den >= minimum.num * coverage.den

\* lines 279-283
setResultOutputs(out, res, meets) ==
    SetKey(SetKey(SetKey(SetKey(out,
        "coverage-percentage", toFixed2(res.coverage)),
        "lines-covered", res.coveredLines),
        "total-lines", res.totalLines),
        "meets-threshold", meets)

\* lines 121-122 of uploadHtmlReportArtifact
setHtmlOutputs(out) ==
    SetKey(SetKey(out, "html-report-path", "coverage-report"),
           "html-report-artifact-name", "coverage-report-pr")

\* lines 171-203: what the body of the comment says
commentBody(res, meets, reportInfo) ==
    [header |-> TRUE, coverage |-> toFixed2(res.coverage), passed |-> meets,
     reportLink |-> reportInfo]

\* lines 154-158: the first comment whose body has the header, 0 for null
findCoverageComment(cs) ==
    LET found == {i \in 1..Len(cs) : cs[i].body.header}
    IN  IF found = {} THEN 0 ELSE cs[Min(found)].id

\* issues.updateComment: the body of the comment is replaced
withBody(cs, id, body) ==
    [i \in 1..Len(cs) |-> IF cs[i].id = id THEN [cs[i] EXCEPT !.body = body] ELSE cs[i]]

\* issues.createComment: a comment is added to the pull request
withNewComment(cs, body) ==
    Append(cs, [id |-> Len(cs) + 1, body |-> body, hidden |-> FALSE])

-----------------------------------------------------------------------------
(* run: inputs                                                             *)

MinimumCoverages ==
    {NaN, [num |-> 50, den |-> 1], [num |-> 6667, den |-> 100],
     [num |-> 80, den |-> 1], [num |-> 100, den |-> 1]}

RunFiles ==
    {<<>>,
     <<[filename |-> "a.js", status |-> "modified",
        patch |-> <<"@@ -1,2 +1,3 @@", "+added", "+added", "+added">>]>>,
     <<[filename |-> "src/b.js", status |-> "added",
        patch |-> <<"@@ -1,2 +1,3 @@", "+added", "+added">>],
       [filename |-> "a.js", status |-> "removed", patch |-> <<>>]>>}

RunLcovData ==
    {<<>>,
     <<[file |-> "a.js", hasDetails |-> TRUE,
        details |-> <<[line |-> 1, hit |-> 3], [line |-> 2, hit |-> 3],
                      [line |-> 3, hit |-> 0]>>]>>,
     <<[file |-> "./a.js", hasDetails |-> TRUE,
        details |-> <<[line |-> 1, hit |-> 0], [line |-> 2, hit |-> 0]>>],
       [file |-> "src/b.js", hasDetails |-> TRUE,
        details |-> <<[line |-> 1, hit |-> 1], [line |-> 2, hit |-> 0]>>]>>,
     <<[file |-> InheritedName, hasDetails |-> TRUE,
        details |-> <<[line |-> 1, hit |-> 1]>>]>>}

RunJsonEntries ==
    <<[file |-> "total", data |-> [hasStatements |-> FALSE, statements |-> <<>>,
                                   hasBranches |-> FALSE, branches |-> <<>>]],
      [file |-> "/w/a.js",
       data |-> [hasStatements |-> TRUE,
                 statements |-> <<[start |-> 1, end |-> 2, hasHit |-> TRUE, hit |-> 1],
                                  [start |-> 3, end |-> 3, hasHit |-> TRUE, hit |-> 0]>>,
                 hasBranches |-> TRUE,
                 branches |-> <<[line |-> 3, hasArms |-> TRUE, arms |-> <<0, 1>>]>>]]>>

NoJson == [syntaxError |-> FALSE, entries |-> <<>>]

NoLcov == [err |-> FALSE, data |-> <<>>]

\* the coverage file of a run: its path and what reading it gives
RunArtifacts ==
    {[filePath |-> "coverage/lcov.info", json |-> NoJson,
      lcov |-> [err |-> FALSE, data |-> d]] : d \in RunLcovData}
    \cup
    {[filePath |-> "coverage/lcov.info", json |-> NoJson,
      lcov |-> [err |-> TRUE, data |-> <<>>]],
     [filePath |-> JsonPath, lcov |-> NoLcov,
      json |-> [syntaxError |-> FALSE, entries |-> RunJsonEntries]],
     [filePath |-> JsonPath, lcov |-> NoLcov,
      json |-> [syntaxError |-> TRUE, entries |-> <<>>]],
     [filePath |-> "coverage.xml", lcov |-> NoLcov, json |-> NoJson]}

OtherBody == [header |-> FALSE, coverage |-> 0, passed |-> FALSE, reportLink |-> FALSE]

PreviousBody == [header |-> TRUE, coverage |-> 5000, passed |-> FALSE, reportLink |-> FALSE]

\* the comments of the pull request before the run: none, one of somebody
\* else, the coverage comment of a previous run, or both
CommentSamples ==
    {<<>>,
     <<[id |-> 1, body |-> OtherBody, hidden |-> FALSE]>>,
     <<[id |-> 1, body |-> PreviousBody, hidden |-> FALSE]>>,
     <<[id |-> 1, body |-> OtherBody, hidden |-> FALSE],
       [id |-> 2, body |-> PreviousBody, hidden |-> FALSE]>>}

\* a run on a pull request with its coverage file in place, with any inputs;
\* or a run without a pull request or without the file
RunInputs ==
    {[pr |-> TRUE, exists |-> TRUE, artifact |-> a, files |-> fs, minimum |-> m,
      fail |-> f, comment |-> c, html |-> h, update |-> u, comments |-> cs] :
        a \in RunArtifacts, fs \in RunFiles, m \in MinimumCoverages, f \in BOOLEAN,
        c \in BOOLEAN, h \in BOOLEAN, u \in BOOLEAN, cs \in CommentSamples}
    \cup
    {[pr |-> pr, exists |-> x, artifact |-> a, files |-> fs, minimum |-> m,
      fail |-> TRUE, comment |-> TRUE, html |-> TRUE, update |-> u, comments |-> cs] :
        pr \in BOOLEAN, x \in BOOLEAN, a \in RunArtifacts, fs \in RunFiles,
        m \in {[num |-> 80, den |-> 1]}, u \in BOOLEAN, cs \in CommentSamples}

-----------------------------------------------------------------------------
(* run (index.js 238-328) and createPrComment (168-235)                    *)

InitRun ==
    /\ \E in \in RunInputs :
          /\ hasPullRequest = in.pr
          /\ fileExists = in.exists
          /\ filePath = in.artifact.filePath
          /\ jsonArtifact = in.artifact.json
          /\ lcovArtifact = in.artifact.lcov
          /\ files = in.files
          /\ minimumCoverage = in.minimum
          /\ failOnBelowThreshold = in.fail
          /\ commentOnPr = in.comment
          /\ generateHtmlReport = in.html
          /\ updateComment = in.update
          /\ comments = in.comments
    /\ cwd = "/w"
    /\ pc = "run"
    /\ coverageData = <<>>
    /\ changedLines = EmptyMap
    /\ results = NoResults
    /\ outputs = EmptyMap
    /\ meetsThreshold = FALSE
    /\ failed = ""
    /\ htmlReportInfo = FALSE
    /\ calls = <<>>
    /\ existingComment = 0
    /\ fileIdx = 1
    /\ lines = <<>>
    /\ lineIdx = 1
    /\ currentLine = 0
    /\ entryIdx = 1
    /\ itemIdx = 1
    /\ lineData = EmptyMap
    /\ parsed = <<>>
    /\ error = ""
    /\ ReportIdle

\* what no step of run changes
runFrame == <<files, fileIdx, lines, lineIdx, currentLine, filePath, fileExists,
              jsonArtifact, lcovArtifact, cwd, entryIdx, itemIdx, lineData, parsed,
              error, hasPullRequest, minimumCoverage, failOnBelowThreshold,
              commentOnPr, generateHtmlReport, updateComment, reportVars>>

\* lines 253-256
RunNoPullRequest ==
    /\ pc = "run"
    /\ ~hasPullRequest
    /\ failed' = "This action can only be run on pull requests"
    /\ pc' = "done"
    /\ UNCHANGED <<runFrame, coverageData, changedLines, results, outputs,
                   meetsThreshold, htmlReportInfo, comments, calls, existingComment>>

\* lines 259-262
RunFileNotFound ==
    /\ pc = "run"
    /\ hasPullRequest
    /\ ~fileExists
    /\ failed' = NotFoundMessage \o filePath
    /\ pc' = "done"
    /\ UNCHANGED <<runFrame, coverageData, changedLines, results, outputs,
                   meetsThreshold, htmlReportInfo, comments, calls, existingComment>>

\* line 268, and lines 324-327 when parse throws
RunParse ==
    /\ pc = "run"
    /\ hasPullRequest
    /\ fileExists
    /\ LET r == parse(filePath, fileExists, jsonArtifact, lcovArtifact, cwd)
       IN  IF r.ok
           THEN /\ coverageData' = r.data
                /\ pc' = "changedLines"
                /\ UNCHANGED failed
           ELSE /\ failed' = "Action failed: " \o r.message
                /\ pc' = "done"
                /\ UNCHANGED coverageData
    /\ UNCHANGED <<runFrame, changedLines, results, outputs, meetsThreshold,
                   htmlReportInfo, comments, calls, existingComment>>

\* line 272
RunGetChangedLines ==
    /\ pc = "changedLines"
    /\ changedLines' = getPrChangedLines(files)
    /\ pc' = "calculate"
    /\ UNCHANGED <<runFrame, coverageData, results, outputs, meetsThreshold, failed,
                   htmlReportInfo, comments, calls, existingComment>>

\* line 272 when pulls.listFiles fails, and lines 324-327
RunListFilesFails ==
    /\ pc = "changedLines"
    /\ failed' = "Action failed: listFiles"
    /\ pc' = "done"
    /\ UNCHANGED <<runFrame, coverageData, changedLines, results, outputs,
                   meetsThreshold, htmlReportInfo, comments, calls, existingComment>>

\* lines 276-283, and lines 324-327 when the calculation throws
RunCalculate ==
    /\ pc = "calculate"
    /\ IF calculateThrows(coverageData, changedLines)
       THEN /\ failed' = "Action failed: changedLinesInFile.has is not a function"
            /\ pc' = "done"
            /\ UNCHANGED <<results, outputs, meetsThreshold>>
       ELSE LET res == calculateChangedLinesCoverage(coverageData, changedLines)
                meets == atLeast(res.coverage, minimumCoverage)
            IN  /\ results' = res
                /\ meetsThreshold' = meets
                /\ outputs' = setResultOutputs(outputs, res, meets)
                /\ pc' = "html"
                /\ UNCHANGED failed
    /\ UNCHANGED <<runFrame, coverageData, changedLines, htmlReportInfo, comments,
                   calls, existingComment>>

\* line 292: the report is not asked for
RunSkipHtmlReport ==
    /\ pc = "html"
    /\ ~generateHtmlReport
    /\ pc' = "comment"
    /\ UNCHANGED <<runFrame, coverageData, changedLines, results, outputs,
                   meetsThreshold, failed, htmlReportInfo, comments, calls,
                   existingComment>>

\* lines 293-305 and uploadHtmlReportArtifact, 114-135
RunHtmlReport ==
    /\ pc = "html"
    /\ generateHtmlReport
    /\ htmlReportInfo' = TRUE
    /\ outputs' = setHtmlOutputs(outputs)
    /\ pc' = "comment"
    /\ UNCHANGED <<runFrame, coverageData, changedLines, results, meetsThreshold,
                   failed, comments, calls, existingComment>>

\* the failure of the report that ends the run failed
RunHtmlReportFailsAborts ==
    /\ pc = "html"
    /\ generateHtmlReport
    /\ failed' = "Action failed: report"
    /\ pc' = "done"
    /\ UNCHANGED <<runFrame, coverageData, changedLines, results, outputs,
                   meetsThreshold, htmlReportInfo, comments, calls, existingComment>>

\* lines 306-308: generateReport threw, a warning is all that happens
RunHtmlReportFails ==
    /\ pc = "html"
    /\ generateHtmlReport
    /\ pc' = "comment"
    /\ UNCHANGED <<runFrame, coverageData, changedLines, results, outputs,
                   meetsThreshold, failed, htmlReportInfo, comments, calls,
                   existingComment>>

\* line 312: no comment is asked for
RunSkipComment ==
    /\ pc = "comment"
    /\ ~commentOnPr
    /\ pc' = "verdict"
    /\ UNCHANGED <<runFrame, coverageData, changedLines, results, outputs,
                   meetsThreshold, failed, htmlReportInfo, comments, calls,
                   existingComment>>

\* lines 206-208 and findExistingCoverageComment, 146-158
FindExistingCoverageComment ==
    /\ pc = "comment"
    /\ commentOnPr
    /\ updateComment
    /\ calls' = Append(calls, [op |-> "listComments", ok |-> TRUE])
    /\ existingComment' = findCoverageComment(comments)
    /\ pc' = "write"
    /\ UNCHANGED <<runFrame, coverageData, changedLines, results, outputs,
                   meetsThreshold, failed, htmlReportInfo, comments>>

\* lines 159-162: listComments failed, null is returned
FindExistingCoverageCommentFails ==
    /\ pc = "comment"
    /\ commentOnPr
    /\ updateComment
    /\ calls' = Append(calls, [op |-> "listComments", ok |-> FALSE])
    /\ existingComment' = 0
    /\ pc' = "write"
    /\ UNCHANGED <<runFrame, coverageData, changedLines, results, outputs,
                   meetsThreshold, failed, htmlReportInfo, comments>>

\* lines 210-218: the comment found is updated and createPrComment returns
UpdateComment ==
    /\ pc = "write"
    /\ existingComment # 0
    /\ calls' = Append(calls, [op |-> "updateComment", ok |-> TRUE])
    /\ comments' = withBody(comments, existingComment,
                            commentBody(results, meetsThreshold, htmlReportInfo))
    /\ pc' = "verdict"
    /\ UNCHANGED <<runFrame, coverageData, changedLines, results, outputs,
                   meetsThreshold, failed, htmlReportInfo, existingComment>>

\* the failure of updateComment after which a new comment is created
UpdateCommentFailsThenCreates ==
    /\ pc = "write"
    /\ existingComment # 0
    /\ calls' = Append(calls, [op |-> "updateComment", ok |-> FALSE])
    /\ existingComment' = 0
    /\ UNCHANGED <<runFrame, coverageData, changedLines, results, outputs,
                   meetsThreshold, failed, htmlReportInfo, comments, pc>>

\* lines 211 and 232-234: updateComment failed, a warning is all that happens
UpdateCommentFails ==
    /\ pc = "write"
    /\ existingComment # 0
    /\ calls' = Append(calls, [op |-> "updateComment", ok |-> FALSE])
    /\ pc' = "verdict"
    /\ UNCHANGED <<runFrame, coverageData, changedLines, results, outputs,
                   meetsThreshold, failed, htmlReportInfo, comments, existingComment>>

\* createComment is reached when updateExisting is false or nothing was found
createCommentReached ==
    \/ pc = "comment" /\ commentOnPr /\ ~updateComment
    \/ pc = "write" /\ existingComment = 0

\* lines 225-231
CreateComment ==
    /\ createCommentReached
    /\ calls' = Append(calls, [op |-> "createComment", ok |-> TRUE])
    /\ comments' = withNewComment(comments,
                                  commentBody(results, meetsThreshold, htmlReportInfo))
    /\ pc' = "verdict"
    /\ UNCHANGED <<runFrame, coverageData, changedLines, results, outputs,
                   meetsThreshold, failed, htmlReportInfo, existingComment>>

\* lines 225 and 232-234: createComment failed, a warning is all that happens
CreateCommentFails ==
    /\ createCommentReached
    /\ calls' = Append(calls, [op |-> "createComment", ok |-> FALSE])
    /\ pc' = "verdict"
    /\ UNCHANGED <<runFrame, coverageData, changedLines, results, outputs,
                   meetsThreshold, failed, htmlReportInfo, comments, existingComment>>

\* lines 318-322
RunFailBelowThreshold ==
    /\ pc = "verdict"
    /\ ~meetsThreshold /\ failOnBelowThreshold
    /\ failed' = "Code coverage of changed lines is below the required threshold"
    /\ pc' = "done"
    /\ UNCHANGED <<runFrame, coverageData, changedLines, results, outputs,
                   meetsThreshold, htmlReportInfo, comments, calls, existingComment>>

\* line 318 when the condition is false: run returns
RunReturn ==
    /\ pc = "verdict"
    /\ ~(~meetsThreshold /\ failOnBelowThreshold)
    /\ pc' = "done"
    /\ UNCHANGED <<runFrame, coverageData, changedLines, results, outputs,
                   meetsThreshold, failed, htmlReportInfo, comments, calls,
                   existingComment>>

NextRun ==
    \/ RunNoPullRequest
    \/ RunFileNotFound
    \/ RunParse
    \/ RunGetChangedLines
    \/ RunListFilesFails
    \/ RunCalculate
    \/ RunSkipHtmlReport
    \/ RunHtmlReport
    \/ RunHtmlReportFails
    \/ RunSkipComment
    \/ FindExistingCoverageComment
    \/ FindExistingCoverageCommentFails
    \/ UpdateComment
    \/ UpdateCommentFails
    \/ CreateComment
    \/ CreateCommentFails
    \/ RunFailBelowThreshold
    \/ RunReturn

SpecRun == InitRun /\ [][NextRun]_vars

-----------------------------------------------------------------------------
(* HtmlReportGenerator (src/src/html-report-generator.js)                  *)

MaxReportLines == 5  \* lines of the source file a section shows

\* the badge class whose bounds are exclusive
getCoverageBadgeClassExclusive(coverage) ==
    IF coverage.num > 80 * coverage.den THEN "coverage-high"
    ELSE IF coverage.num > 50 * coverage.den THEN "coverage-medium"
    ELSE "coverage-low"

\* lines 1147-1151; the coverage is a percentage of calculateChangedLinesCoverage,
\* a fraction with a positive denominator
getCoverageBadgeClass(coverage) ==
    IF coverage.num >= 80 * coverage.den THEN "coverage-high"
    ELSE IF coverage.num >= 50 * coverage.den THEN "coverage-medium"
    ELSE "coverage-low"

\* lines 1156-1160: the icons are named pass, warning and fail
getCoverageIcon(coverage) ==
    IF coverage.num >= 80 * coverage.den THEN "pass"
    ELSE IF coverage.num >= 50 * coverage.den THEN "warning"
    ELSE "fail"

\* line 564: the status icon of the header of a file section
statusIcon(coverage) ==
    IF coverage.num >= 80 * coverage.den THEN "pass"
    ELSE IF coverage.num >= 50 * coverage.den THEN "warning"
    ELSE "fail"

\* lines 956-964: the index of the first entry of the coverage data whose
\* path is that of the file, 0 for undefined
findFileCoverageData(path, data) ==
    LET found == {i \in 1..Len(data) : normalizePath(data[i].file) = normalizePath(path)}
    IN  IF found = {} THEN 0 ELSE Min(found)

\* lines 553-558: coverageMap.set(lineInfo.line, lineInfo.hit > 0) for every
\* line record, a later record of a line replacing an earlier one
RECURSIVE coverageMapOf(_, _)
coverageMapOf(map, details) ==
    IF details = <<>> THEN map
    ELSE coverageMapOf(SetKey(map, Head(details).line, Head(details).hit > 0),
                       Tail(details))

\* the coverageMap of a section
sectionCoverageMap(path, data) ==
    LET i == findFileCoverageData(path, data)
    IN  IF i # 0 /\ data[i].hasDetails THEN coverageMapOf(EmptyMap, data[i].details)
        ELSE EmptyMap

\* lines 599-612: the classes of the line of number lineNumber
lineClass(lineNumber, changed, coverageMap) ==
    IF lineNumber \in changed
    THEN IF lineNumber \in DOMAIN coverageMap
         THEN IF coverageMap[lineNumber] THEN {"line-changed", "line-covered"}
              ELSE {"line-changed", "line-uncovered"}
         ELSE {"line-changed"}
    ELSE {}

\* Object.entries(fileResults), line 56: the keys as a sequence
RECURSIVE keysOf(_)
keysOf(K) ==
    IF K = {} THEN <<>>
    ELSE LET k == CHOOSE x \in K : TRUE IN <<k>> \o keysOf(K \ {k})

\* line 57: changedLines[filePath] || new Set()
changedLinesSetOf(changed, path) == IF path \in DOMAIN changed THEN changed[path] ELSE {}

-----------------------------------------------------------------------------
(* generateReport: inputs                                                  *)

\* for every line of the file: no line record, one never hit, or one hit
RecordKinds == {"none", "miss", "hit"}

RECURSIVE detailsFrom(_, _)
detailsFrom(kinds, n) ==
    IF n > Len(kinds) THEN <<>>
    ELSE (IF kinds[n] = "none" THEN <<>>
          ELSE <<[line |-> n, hit |-> IF kinds[n] = "hit" THEN 1 ELSE 0]>>)
            \o detailsFrom(kinds, n + 1)

ReportDetails == {detailsFrom(k, 1) : k \in [1..MaxReportLines -> RecordKinds]}

\* the changed lines of the file: its first lines, or none
ReportChangedSets == {1..k : k \in 0..MaxReportLines}

\* what run passes to generateReport for a pull request of one file
ReportInputs ==
    [details : ReportDetails, changed : ReportChangedSets, minimum : MinimumCoverages]

-----------------------------------------------------------------------------
(* generateReport (15-50) and generateFileSection (549-625)                *)

InitReport ==
    /\ \E in \in ReportInputs :
          /\ coverageData = <<[file |-> "./a.js", hasDetails |-> TRUE,
                               details |-> in.details]>>
          /\ changedLines = [k \in {"a.js"} |-> in.changed]
          /\ minimumCoverage = in.minimum
    /\ results = calculateChangedLinesCoverage(coverageData, changedLines)
    /\ sourceLines = MaxReportLines
    /\ sectionKeys = keysOf(DOMAIN results.fileResults)
    /\ sectionIdx = 1
    /\ renderIdx = 1
    /\ report = NoReport
    /\ pc = "sections"
    /\ files = <<>>
    /\ fileIdx = 1
    /\ lines = <<>>
    /\ lineIdx = 1
    /\ currentLine = 0
    /\ ParseIdle
    /\ hasPullRequest = TRUE
    /\ failOnBelowThreshold = FALSE
    /\ commentOnPr = FALSE
    /\ generateHtmlReport = TRUE
    /\ updateComment = FALSE
    /\ outputs = EmptyMap
    /\ meetsThreshold = FALSE
    /\ failed = ""
    /\ htmlReportInfo = FALSE
    /\ comments = <<>>
    /\ calls = <<>>
    /\ existingComment = 0

\* what no step of generateReport changes
reportFrame == <<diffVars, changedLines, calcVars, parseVars, runVars, sourceLines,
                 sectionKeys>>

\* lines 561-572: the header of the section of a file
BeginSection ==
    /\ pc = "sections"
    /\ sectionIdx <= Len(sectionKeys)
    /\ LET path == sectionKeys[sectionIdx]
           result == results.fileResults[path]
       IN  report' = [report EXCEPT !.sections =
                        SetKey(@, path,
                               [statusIcon |-> statusIcon(result.coverage),
                                fillClass |-> getCoverageBadgeClass(result.coverage),
                                lineClasses |-> <<>>])]
    /\ renderIdx' = 1
    /\ pc' = "render"
    /\ UNCHANGED <<reportFrame, sectionIdx>>

\* lines 596-620: one line of the content of the file
RenderLine ==
    /\ pc = "render"
    /\ renderIdx <= sourceLines
    /\ LET path == sectionKeys[sectionIdx]
           classes == lineClass(renderIdx, changedLinesSetOf(changedLines, path),
                                sectionCoverageMap(path, coverageData))
       IN  report' = [report EXCEPT !.sections[path].lineClasses = Append(@, classes)]
    /\ renderIdx' = renderIdx + 1
    /\ UNCHANGED <<reportFrame, sectionIdx, pc>>

\* the section is complete
EndSection ==
    /\ pc = "render"
    /\ renderIdx > sourceLines
    /\ sectionIdx' = sectionIdx + 1
    /\ pc' = "sections"
    /\ UNCHANGED <<reportFrame, renderIdx, report>>

\* generateEnhancedMainReport, lines 424-429: the summary card, and the
\* return of generateReport
EnhancedMainReport ==
    /\ pc = "sections"
    /\ sectionIdx > Len(sectionKeys)
    /\ report' = [report EXCEPT !.summaryBadge = getCoverageBadgeClass(results.coverage),
                                !.summaryIcon = getCoverageIcon(results.coverage)]
    /\ pc' = "reported"
    /\ UNCHANGED <<reportFrame, sectionIdx, renderIdx>>

NextReport ==
    \/ BeginSection
    \/ RenderLine
    \/ EndSection
    \/ EnhancedMainReport

SpecReport == InitReport /\ [][NextReport]_vars

-----------------------------------------------------------------------------
(* Properties of calculateChangedLinesCoverage, under SpecCalc             *)

Calculated == pc = "calculated"

entryIndexes == 1..Len(coverageData)

\* the coverage entries joined to the changed-line key f
EntriesOf(f) == {i \in entryIndexes : normalizePath(coverageData[i].file) = f}

\* the line records of entry i
RecordsOf(i) ==
    IF coverageData[i].hasDetails
    THEN {coverageData[i].details[j] : j \in 1..Len(coverageData[i].details)}
    ELSE {}

RECURSIVE SumOver(_, _, _)
SumOver(map, keys, field) ==
    IF keys = {} THEN 0
    ELSE LET k == CHOOSE x \in keys : TRUE
         IN  map[k][field] + SumOver(map, keys \ {k}, field)

\* C1: in the value returned, 0 <= coveredLines <= totalLines holds for the
\* aggregate and for every entry of fileResults.
C1_CoveredWithinTotal ==
    Calculated =>
        /\ 0 <= results.coveredLines
        /\ results.coveredLines <= results.totalLines
        /\ \A f \in DOMAIN results.fileResults :
              /\ 0 <= results.fileResults[f].coveredLines
              /\ results.fileResults[f].coveredLines <= results.fileResults[f].totalLines

\* a result with a covered and an uncovered changed line, in the aggregate
\* and in one file
C1_Witness ==
    /\ Calculated
    /\ results.totalLines = 2
    /\ results.coveredLines = 1
    /\ \E f \in DOMAIN results.fileResults :
          /\ results.fileResults[f].totalLines = 2
          /\ results.fileResults[f].coveredLines = 1

\* C2: for every file of fileResults, totalLines is the number of the line
\* numbers of its changed-line set that have a coverage entry, and
\* coveredLines the number of those with hit > 0.
C2_CountsAreChangedLinesWithData ==
    Calculated =>
        \A f \in DOMAIN results.fileResults :
            /\ results.fileResults[f].totalLines =
                  Cardinality({n \in changedLines[f] :
                      \E i \in EntriesOf(f) : \E r \in RecordsOf(i) : r.line = n})
            /\ results.fileResults[f].coveredLines =
                  Cardinality({n \in changedLines[f] :
                      \E i \in EntriesOf(f) : \E r \in RecordsOf(i) :
                          r.line = n /\ r.hit > 0})
            /\ results.fileResults[f].totalLines <= Cardinality(changedLines[f])

\* C3: the aggregate coverage is exactly 100 when the aggregate totalLines is
\* 0, and is coveredLines / totalLines * 100, within [0, 100], otherwise.
C3_AggregateCoverage ==
    Calculated =>
        /\ results.coverage.den > 0
        /\ results.totalLines = 0 => results.coverage.num = 100 * results.coverage.den
        /\ results.totalLines > 0 =>
              /\ results.coverage.num * results.totalLines =
                    results.coveredLines * 100 * results.coverage.den
              /\ 0 <= results.coverage.num
              /\ results.coverage.num <= 100 * results.coverage.den

\* changed lines and coverage data, none of it for a changed line: 100
C3_Witness ==
    /\ Calculated
    /\ results.totalLines = 0
    /\ results.coverage = Hundred
    /\ \E f \in DOMAIN changedLines :
          /\ changedLines[f] # {}
          /\ \E i \in EntriesOf(f) : RecordsOf(i) # {}

\* C4: the aggregate totalLines and coveredLines are the sums of totalLines
\* and coveredLines over the entries of fileResults.
C4_AggregateIsSumOfFiles ==
    Calculated =>
        /\ results.totalLines =
              SumOver(results.fileResults, DOMAIN results.fileResults, "totalLines")
        /\ results.coveredLines =
              SumOver(results.fileResults, DOMAIN results.fileResults, "coveredLines")

\* C5: a file is a key of fileResults if and only if one of its changed
\* lines has a coverage entry, and every entry of fileResults has
\* totalLines > 0.
C5_KeysAreFilesWithData ==
    Calculated =>
        /\ \A f \in (DOMAIN changedLines) \cup (DOMAIN results.fileResults) :
              f \in DOMAIN results.fileResults <=>
                  /\ f \in DOMAIN changedLines
                  /\ \E i \in EntriesOf(f) : \E r \in RecordsOf(i) :
                        r.line \in changedLines[f]
        /\ \A f \in DOMAIN results.fileResults : results.fileResults[f].totalLines > 0

\* a file with changed lines and coverage data on other lines only is
\* left out, beside a file that is a key
C5_Witness ==
    /\ Calculated
    /\ \E f \in DOMAIN changedLines :
          /\ changedLines[f] # {}
          /\ \E i \in EntriesOf(f) : RecordsOf(i) # {}
          /\ f \notin DOMAIN results.fileResults
    /\ DOMAIN results.fileResults # {}

\* the path without one leading "./"
WithoutDotSlash(path) ==
    IF StartsWith(path, "./") THEN SubSeq(path, 3, Len(path)) ELSE path

\* C6: a coverage path and a diff filename that differ only by a leading
\* "./" have the same join key, and the entry is joined to the changed
\* lines of that filename.
C6_SameKeyOnBothSides ==
    Calculated =>
        \A i \in entryIndexes : \A d \in DOMAIN changedLines :
            WithoutDotSlash(coverageData[i].file) = WithoutDotSlash(d) =>
                /\ normalizePath(coverageData[i].file) = diffKey(d)
                /\ (\E r \in RecordsOf(i) : r.line \in changedLines[d]) =>
                      normalizePath(coverageData[i].file) \in DOMAIN results.fileResults

-----------------------------------------------------------------------------
(* Properties of getPrChangedLines, under SpecDiff                         *)

Returned == pc = "returned"

fileIndexes == 1..Len(files)

\* the new-file start a hunk header states, -1 for a header that states none
HeaderStart(line) ==
    CASE line = "@@ -1,2 +1,3 @@" -> 1
      [] line = "@@ -9 +12,2 @@ x+5" -> 12
      [] line = "@@ -1 +0,0 @@" -> 0
      [] OTHER -> -1

IsHeader(line) == StartsWith(line, "@@")

\* an added line: it begins with "+" and not with "+++"
IsAdded(line) == StartsWith(line, "+") /\ ~StartsWith(line, "+++")

\* a line that takes a line number of the new file: an added line, or a
\* context line, which is any line that is no header, no "-" line and no
\* "\" line
TakesLineNumber(line) ==
    /\ ~IsHeader(line)
    /\ IsAdded(line) \/ (~StartsWith(line, "-") /\ ~StartsWith(line, "\\"))

WellFormedPatch(patch) ==
    /\ patch # <<>>
    /\ IsHeader(patch[1])
    /\ \A i \in 1..Len(patch) : IsHeader(patch[i]) => HeaderStart(patch[i]) >= 0

\* the new-file line number of line i of a well-formed patch
LineNumberAt(patch, i) ==
    LET h == CHOOSE j \in 1..i : /\ IsHeader(patch[j])
                                 /\ \A k \in (j + 1)..i : ~IsHeader(patch[k])
    IN  HeaderStart(patch[h])
            + Cardinality({k \in (h + 1)..(i - 1) : TakesLineNumber(patch[k])})

AddedLineNumbers(patch) ==
    {LineNumberAt(patch, i) : i \in {k \in 1..Len(patch) : IsAdded(patch[k])}}

\* C7: for a patch of hunks with well-formed headers, the changed-line set
\* is the set of the new-file line numbers of the added lines, numbered from
\* each header's start, one number per added line and per context line.
C7_ChangedLinesAreAddedLines ==
    Returned =>
        \A i \in fileIndexes :
            (files[i].status # "removed" /\ WellFormedPatch(files[i].patch)) =>
                changedLines[files[i].filename] = AddedLineNumbers(files[i].patch)

\* header +1, context, added, added, context gives {2, 3}
C7_Witness ==
    /\ Returned
    /\ \E i \in fileIndexes :
          /\ files[i].status # "removed"
          /\ files[i].patch =
                <<"@@ -1,2 +1,3 @@", " context", "+added", "+added", " context">>
          /\ changedLines[files[i].filename] = {2, 3}

\* C8: the scan of a line that begins with "-" or with "\" changes neither
\* the cursor nor the changed-line map, and a patch without a "+" line
\* gives an empty changed-line set.
C8_RemovedAndMarkerLinesIgnored ==
    /\ [][(/\ pc = "lines"
           /\ lineIdx <= Len(lines)
           /\ lineIdx' = lineIdx + 1
           /\ StartsWith(lines[lineIdx], "-") \/ StartsWith(lines[lineIdx], "\\"))
              => (currentLine' = currentLine /\ changedLines' = changedLines)]_vars
    /\ [](Returned =>
            \A i \in fileIndexes :
                (/\ files[i].status # "removed"
                 /\ \A k \in 1..Len(files[i].patch) : ~StartsWith(files[i].patch[k], "+"))
                    => changedLines[files[i].filename] = {})

\* a "-" line was scanned after an added line was recorded
C8_Witness ==
    /\ pc = "lines"
    /\ lineIdx > 1
    /\ StartsWith(lines[lineIdx - 1], "-")
    /\ currentLine > 0
    /\ changedLines[files[fileIdx].filename] # {}

\* C9: every line number of every changed-line set is >= 1.
C9_LineNumbersPositive ==
    \A f \in DOMAIN changedLines : \A n \in changedLines[f] : n >= 1

\* C10: the map returned has no key for a removed file and a key for every
\* other file; a file without patch text has the empty set.
C10_KeysAreFilesNotRemoved ==
    Returned =>
        \A i \in fileIndexes :
            /\ files[i].status = "removed" => files[i].filename \notin DOMAIN changedLines
            /\ files[i].status # "removed" => files[i].filename \in DOMAIN changedLines
            /\ (files[i].status # "removed" /\ files[i].patch = <<>>) =>
                  changedLines[files[i].filename] = {}

\* a removed file beside a file without patch text
C10_Witness ==
    /\ Returned
    /\ \E i, j \in fileIndexes :
          /\ files[i].status = "removed"
          /\ files[i].filename \notin DOMAIN changedLines
          /\ files[j].status # "removed"
          /\ files[j].patch = <<>>
          /\ changedLines[files[j].filename] = {}

\* a step of the scan that takes the line at the cursor of the loop
ScansLine == pc = "lines" /\ lineIdx <= Len(lines) /\ lineIdx' = lineIdx + 1

\* the line has a "+" followed by a digit
HasPlusDigits(line) ==
    \E i \in 1..(Len(line) - 1) :
        /\ SubSeq(line, i, i) = "+"
        /\ SubSeq(line, i + 1, i + 1) \in
              {"0", "1", "2", "3", "4", "5", "6", "7", "8", "9"}

\* C23: the scan of a line that begins with "@@" and has no "+<digits>"
\* changes neither the cursor nor the changed-line map and the scan goes
\* on; the scan of a header with a start sets the cursor to that start,
\* whatever the cursor was, and records nothing.
C23_HeaderWithoutStartKeepsCursor ==
    [][(ScansLine /\ StartsWith(lines[lineIdx], "@@")) =>
          /\ changedLines' = changedLines
          /\ pc' = "lines"
          /\ ~HasPlusDigits(lines[lineIdx]) => currentLine' = currentLine
          /\ HasPlusDigits(lines[lineIdx]) => currentLine' = HeaderStart(lines[lineIdx])]_vars

\* "@@ bad" was scanned after a header of start 12 and an added line: the
\* cursor is still 13
C23_Witness ==
    /\ pc = "lines"
    /\ lineIdx = 4
    /\ lines[1] = "@@ -9 +12,2 @@ x+5"
    /\ lines[2] = "+added"
    /\ lines[3] = "@@ bad"
    /\ currentLine = 13
    /\ changedLines[files[fileIdx].filename] = {12}

\* C26: the scan of a line that begins with "+++" records nothing and
\* advances the cursor by 1, and the scan of a line that begins with "---"
\* leaves the cursor and the map as they are; an added line that follows a
\* "+++" line is recorded one number after it.
C26_TriplePlusAdvancesCursor ==
    /\ [][(ScansLine /\ StartsWith(lines[lineIdx], "+++")) =>
             (currentLine' = currentLine + 1 /\ changedLines' = changedLines)]_vars
    /\ [][(ScansLine /\ StartsWith(lines[lineIdx], "---")) =>
             (currentLine' = currentLine /\ changedLines' = changedLines)]_vars
    /\ [](Returned =>
            \A i \in fileIndexes :
                (files[i].status # "removed" /\ WellFormedPatch(files[i].patch)) =>
                    \A k \in 2..(Len(files[i].patch) - 1) :
                        (/\ StartsWith(files[i].patch[k], "+++")
                         /\ IsAdded(files[i].patch[k + 1])) =>
                            /\ LineNumberAt(files[i].patch, k) + 1
                                  \in changedLines[files[i].filename]
                            /\ (\A j \in 1..Len(files[i].patch) :
                                   j # k => ~IsAdded(files[i].patch[j])
                                            \/ LineNumberAt(files[i].patch, j)
                                                  # LineNumberAt(files[i].patch, k))
                                  => LineNumberAt(files[i].patch, k)
                                        \notin changedLines[files[i].filename])

\* header of start 1, "+++x", "+added": line 1 is not recorded, line 2 is
C26_Witness ==
    /\ Returned
    /\ Len(files) = 1
    /\ files[1].patch = <<"@@ -1,2 +1,3 @@", "+++x", "+added">>
    /\ changedLines[files[1].filename] = {2}

\* the line records that count: record j of entry i, when the path of the
\* entry is a key of the changed-line map and the line of the record is in
\* its set
CountedRecords ==
    {ij \in entryIndexes \X (1..MaxDetails + 1) :
        LET file == coverageData[ij[1]]
            key == normalizePath(file.file)
        IN  /\ file.hasDetails
            /\ ij[2] <= Len(file.details)
            /\ key \in DOMAIN changedLines
            /\ file.details[ij[2]].line \in changedLines[key]}

\* C19: calculateChangedLinesCoverage always returns, and its counts come
\* from nothing but the line records of entries whose path is a key of the
\* changed-line map and whose line is in the set of that key: a key without
\* an entry, an entry whose path is no key or has an empty set, and an entry
\* without line details add nothing and raise no error.
C19_ReconciliationNeverFails ==
    pc # "call" =>
        /\ pc = "calculated"
        /\ results.totalLines = Cardinality(CountedRecords)
        /\ results.coveredLines =
              Cardinality({ij \in CountedRecords :
                              coverageData[ij[1]].details[ij[2]].hit > 0})
        /\ \A f \in DOMAIN results.fileResults :
              \E ij \in CountedRecords : normalizePath(coverageData[ij[1]].file) = f

\* the sequences that hold the elements of seq in another order
Reorderings(seq) ==
    {[i \in 1..Len(seq) |-> seq[p[i]]] :
        p \in {q \in [1..Len(seq) -> 1..Len(seq)] :
                  \A i, j \in 1..Len(seq) : i # j => q[i] # q[j]}}

\* the coverage data with the line records of entry i in another order
WithDetailsReordered(i) ==
    {[coverageData EXCEPT ![i].details = d] : d \in Reorderings(coverageData[i].details)}

\* C30: the value calculateChangedLinesCoverage returns is the value it
\* returns for the same entries in any other order, and for the line
\* records of any entry in any other order.
C30_ResultIndependentOfOrder ==
    Calculated =>
        /\ \A data \in Reorderings(coverageData) :
              calculateChangedLinesCoverage(data, changedLines) = results
        /\ \A i \in entryIndexes : \A data \in WithDetailsReordered(i) :
              calculateChangedLinesCoverage(data, changedLines) = results

-----------------------------------------------------------------------------
(* Properties of CoverageParser, under SpecParse                           *)

\* the call went to parseJestJson and it returned
JestParsed == pc = "parsed" /\ detectFormat(filePath) = "json"

Max(S) == CHOOSE x \in S : \A y \in S : x >= y

\* the statements of the current file that the loop has processed
StatementsDone ==
    LET data == jsonArtifact.entries[entryIdx].data
    IN  IF data.hasStatements THEN SubSeq(data.statements, 1, itemIdx - 1) ELSE <<>>

\* the statements among them whose range of lines contains l
Covering(l) ==
    {k \in 1..Len(StatementsDone) :
        StatementsDone[k].start <= l /\ l <= StatementsDone[k].end}

\* the hit count recorded for statement k, 0 when none is recorded
HitsOf(k) == IF StatementsDone[k].hasHit THEN StatementsDone[k].hit ELSE 0

\* C11: during and after the expansion of the statements of a file, the
\* lines with a hit count are the lines that some processed statement
\* contains, and the hit count of each is the maximum of the hit counts of
\* the statements that contain it, in whatever order they were processed.
C11_LineHitIsMaxOverStatements ==
    pc = "statements" =>
        /\ DOMAIN lineData =
              UNION {StatementsDone[k].start..StatementsDone[k].end :
                        k \in 1..Len(StatementsDone)}
        /\ \A l \in DOMAIN lineData :
              lineData[l] = Max({HitsOf(k) : k \in Covering(l)})

\* line 1 is in a statement hit 3 times and then in one never hit: 3
C11_Witness ==
    /\ pc = "statements"
    /\ itemIdx = 3
    /\ Covering(1) = {1, 2}
    /\ HitsOf(1) = 3
    /\ HitsOf(2) = 0
    /\ lineData[1] = 3

\* the branch that the step at hand processes
BranchAtHand == jsonArtifact.entries[entryIdx].data.branches[itemIdx]

\* C12: a step of the branch overlay keeps every line that has a hit count,
\* leaves a hit count of 1 or more as it is, and changes or adds a line only
\* for a branch with an arm hit more than 0 times whose line has no entry or
\* an entry of 0, and then to exactly 1.
C12_BranchOverlayOnlyRaisesToOne ==
    [][JestBranch =>
          /\ DOMAIN lineData \subseteq DOMAIN lineData'
          /\ \A l \in DOMAIN lineData : lineData[l] >= 1 => lineData'[l] = lineData[l]
          /\ \A l \in DOMAIN lineData' :
                (l \notin DOMAIN lineData \/ lineData'[l] # lineData[l]) =>
                    /\ lineData'[l] = 1
                    /\ l = BranchAtHand.line
                    /\ BranchAtHand.hasArms
                    /\ \E k \in 1..Len(BranchAtHand.arms) : BranchAtHand.arms[k] > 0
                    /\ (l \notin DOMAIN lineData \/ lineData[l] = 0)]_vars

\* a branch with a hit arm on line 1 was processed, and line 1 still has the
\* 3 hits of its statement
C12_Witness ==
    /\ pc = "branches"
    /\ itemIdx = 2
    /\ LET branch == jsonArtifact.entries[entryIdx].data.branches[1]
       IN  /\ branch.line = 1
           /\ branch.hasArms
           /\ \E k \in 1..Len(branch.arms) : branch.arms[k] > 0
    /\ 1 \in DOMAIN lineData
    /\ lineData[1] = 3

\* the keys of the artifact other than "total", in the order of the artifact
FileKeys ==
    LET keep(e) == e.file # "total"
        kept == SelectSeq(jsonArtifact.entries, keep)
    IN  [i \in 1..Len(kept) |-> kept[i].file]

\* C13: parseJestJson returns one entry for every key of the artifact other
\* than "total", in the order of the keys, and none for "total".
C13_OneEntryPerFileKey ==
    JestParsed =>
        /\ Len(parsed) = Len(FileKeys)
        /\ \A i \in 1..Len(parsed) : parsed[i].file = jestFilePath(FileKeys[i], cwd)

\* an artifact of "total" and two files, parsed to two entries
C13_Witness ==
    /\ JestParsed
    /\ Len(jsonArtifact.entries) = 3
    /\ \E i \in 1..3 : jsonArtifact.entries[i].file = "total"
    /\ Len(parsed) = 2

\* the key with the working directory removed when the key begins with it,
\* and then one leading "/" removed
withoutCwdPrefix(key, dir) ==
    LET rest == IF StartsWith(key, dir) THEN SubSeq(key, Len(dir) + 1, Len(key)) ELSE key
    IN  IF StartsWith(rest, "/") THEN SubSeq(rest, 2, Len(rest)) ELSE rest

\* C14: the file path of each entry is its key with the working directory
\* removed only when the key begins with it, and then one leading "/"
\* removed.
C14_CwdRemovedOnlyAsPrefix ==
    JestParsed =>
        /\ Len(parsed) = Len(FileKeys)
        /\ \A i \in 1..Len(parsed) : parsed[i].file = withoutCwdPrefix(FileKeys[i], cwd)

\* C15: a call of parse with a path that does not exist is rejected with
\* "Coverage file not found" whatever the name of the path, and one with an
\* existing path whose name neither ends in ".info" or ".json" nor contains
\* "lcov" is rejected with "Unsupported coverage file format"; neither
\* parser is entered.
C15_NotFoundAndUnsupportedRejected ==
    /\ (pc # "parse" /\ ~fileExists) =>
          /\ pc = "rejected"
          /\ error = "Coverage file not found: " \o filePath
          /\ parsed = <<>>
    /\ (/\ pc # "parse"
        /\ fileExists
        /\ ~EndsWith(filePath, ".info")
        /\ ~EndsWith(filePath, ".json")
        /\ ~Includes(filePath, "lcov")) =>
          /\ pc = "rejected"
          /\ error =
               "Unsupported coverage file format. Please use LCOV (.info) or Jest JSON format."
          /\ parsed = <<>>

\* an existing "coverage.xml" was rejected as unsupported
C15_Witness ==
    /\ pc = "rejected"
    /\ fileExists
    /\ filePath = "coverage.xml"
    /\ error = UnsupportedMessage

\* C16: a call of parse with an existing path whose name ends in ".json"
\* goes to parseJestJson and is never in parseLcov.
C16_JsonRoutedToJestParser ==
    (fileExists /\ EndsWith(filePath, ".json")) =>
        \/ pc \in {"parse", "entries", "statements", "branches"}
        \/ pc = "parsed"
        \/ pc = "rejected" /\ error = "Unexpected token"

\* the call went to parseLcov and it resolved
LcovParsed == pc = "parsed" /\ detectFormat(filePath) = "lcov"

\* C24: the key under which an entry returned for an LCOV file is joined to
\* the changed-line map is the key that the Jest JSON path gives the same
\* file: the path of the record with the working directory and a leading
\* "/" removed.
C24_LcovPathsNormalizedLikeJson ==
    LcovParsed =>
        /\ Len(parsed) = Len(lcovArtifact.data)
        /\ \A i \in 1..Len(parsed) :
              normalizePath(parsed[i].file) =
                  normalizePath(jestFilePath(lcovArtifact.data[i].file, cwd))

-----------------------------------------------------------------------------
(* Properties of run and createPrComment, under SpecRun                    *)

BelowThresholdMessage == "Code coverage of changed lines is below the required threshold"

\* run has set the outputs of lines 279-283
OutputsSet == "meets-threshold" \in DOMAIN outputs

\* C17: the output meets-threshold is true exactly when the aggregate
\* coverage is at least minimum-coverage, a coverage equal to it included;
\* a run that got as far as the verdict ends failed exactly when
\* meets-threshold is false and fail-on-coverage-below-threshold is 'true',
\* and with the flag not 'true' it does not end failed.
C17_ThresholdVerdict ==
    /\ OutputsSet =>
          (outputs["meets-threshold"] = TRUE <=>
              /\ minimumCoverage.den # 0
              /\ results.coverage.num * minimumCoverage.den >=
                    minimumCoverage.num * results.coverage.den)
    /\ (OutputsSet /\ pc = "done") =>
          /\ failed = BelowThresholdMessage <=>
                (outputs["meets-threshold"] = FALSE /\ failOnBelowThreshold)
          /\ ~failOnBelowThreshold => failed = ""
          /\ failed \in {"", BelowThresholdMessage}

\* a run whose coverage of 50 equals its minimum of 50 ended with
\* meets-threshold true and not failed, though the flag is 'true'
C17_Witness ==
    /\ pc = "done"
    /\ OutputsSet
    /\ results.totalLines = 2
    /\ results.coveredLines = 1
    /\ minimumCoverage = [num |-> 50, den |-> 1]
    /\ outputs["meets-threshold"] = TRUE
    /\ failOnBelowThreshold
    /\ failed = ""

\* the call of CoverageParser.parse by run throws
ParseThrows ==
    \/ ~fileExists
    \/ EndsWith(filePath, ".info") /\ lcovArtifact.err
    \/ Includes(filePath, "lcov") /\ lcovArtifact.err
    \/ /\ ~EndsWith(filePath, ".info")
       /\ ~Includes(filePath, "lcov")
       /\ (EndsWith(filePath, ".json") => jsonArtifact.syntaxError)

\* C18: a run without a pull request, or without its coverage file, or
\* whose parse of the coverage file throws never gets past the parse; it
\* ends failed with no output set, no HTML report generated and no call to
\* the comment API.
C18_NoPartialResultOnAbort ==
    (~hasPullRequest \/ ~fileExists \/ ParseThrows) =>
        /\ pc \in {"run", "done"}
        /\ pc = "done" => failed # ""
        /\ outputs = EmptyMap
        /\ results = NoResults
        /\ ~htmlReportInfo
        /\ calls = <<>>
        /\ \A i \in 1..Len(comments) :
              comments[i].body \in {OtherBody, PreviousBody}

\* a run with the report and the comment asked for ended at a coverage file
\* that lcov-parse rejects: failed, nothing set, nothing posted
C18_Witness ==
    /\ pc = "done"
    /\ hasPullRequest
    /\ fileExists
    /\ filePath = "coverage/lcov.info"
    /\ lcovArtifact.err
    /\ generateHtmlReport
    /\ commentOnPr
    /\ failed = "Action failed: Failed to parse string"
    /\ outputs = EmptyMap
    /\ calls = <<>>

\* createPrComment was called and has returned
CommentReturned == commentOnPr /\ OutputsSet /\ pc \in {"verdict", "done"}

\* C20: with update-comment enabled, a call of createPrComment whose API
\* calls all succeed creates a new comment, the last of the pull request,
\* and a coverage comment of a previous run that it found is hidden.
C20_UpdateCommentCreatesNewComment ==
    (/\ CommentReturned
     /\ updateComment
     /\ \A k \in 1..Len(calls) : calls[k].ok) =>
        /\ \E k \in 1..Len(calls) : calls[k].op = "createComment"
        /\ comments # <<>>
        /\ comments[Len(comments)].body =
              [header |-> TRUE, coverage |-> outputs["coverage-percentage"],
               passed |-> outputs["meets-threshold"], reportLink |-> htmlReportInfo]
        /\ \A i \in 1..(Len(comments) - 1) :
              comments[i].body.header => comments[i].hidden

\* the report was asked for and its generation failed
HtmlFailed ==
    /\ generateHtmlReport
    /\ OutputsSet
    /\ pc \in {"comment", "write", "verdict", "done"}
    /\ ~htmlReportInfo

\* a call to the comment API failed
CommentFailed == \E k \in 1..Len(calls) : ~calls[k].ok

\* C27: after a failure of the HTML report or of a call to the comment API
\* the four result outputs are as they were set, the run ends failed only
\* by the threshold verdict, which is applied, and after a failure of the
\* report a comment whose API calls succeed is posted, without a link to
\* the report.
C27_ReportAndCommentFailuresIsolated ==
    (HtmlFailed \/ CommentFailed) =>
        /\ outputs["coverage-percentage"] =
              (200 * results.coverage.num + results.coverage.den)
                  \div (2 * results.coverage.den)
        /\ outputs["lines-covered"] = results.coveredLines
        /\ outputs["total-lines"] = results.totalLines
        /\ outputs["meets-threshold"] = meetsThreshold
        /\ HtmlFailed =>
              DOMAIN outputs = {"coverage-percentage", "lines-covered", "total-lines",
                                "meets-threshold"}
        /\ failed \in {"", BelowThresholdMessage}
        /\ pc = "done" =>
              (failed = BelowThresholdMessage <=>
                  (~outputs["meets-threshold"] /\ failOnBelowThreshold))
        /\ (/\ HtmlFailed
            /\ commentOnPr
            /\ pc \in {"verdict", "done"}
            /\ ~CommentFailed) =>
              \E i \in 1..Len(comments) :
                  comments[i].body =
                      [header |-> TRUE, coverage |-> outputs["coverage-percentage"],
                       passed |-> outputs["meets-threshold"], reportLink |-> FALSE]

\* the report failed, the comment was created all the same, and the run
\* ended failed by the verdict
C27_Witness ==
    /\ pc = "done"
    /\ HtmlFailed
    /\ commentOnPr
    /\ calls = <<[op |-> "createComment", ok |-> TRUE]>>
    /\ comments # <<>>
    /\ comments[Len(comments)].body.reportLink = FALSE
    /\ comments[Len(comments)].body.coverage = outputs["coverage-percentage"]
    /\ failOnBelowThreshold
    /\ ~outputs["meets-threshold"]
    /\ failed = BelowThresholdMessage

\* the calls that write a comment
CommentWrites ==
    {k \in 1..Len(calls) : calls[k].op \in {"updateComment", "createComment"}}

C29_VerdictAgreesWithPublishedPercentage ==
    OutputsSet =>
        (outputs["meets-threshold"] = TRUE <=>
            /\ minimumCoverage.den # 0
            /\ outputs["coverage-percentage"] * minimumCoverage.den >=
                  minimumCoverage.num * 100)

-----------------------------------------------------------------------------
(* Properties of HtmlReportGenerator, under SpecReport                     *)

Reported == pc = "reported"

\* the line records of the file of a section for line n
RecordsFor(path, n) ==
    {r \in UNION {RecordsOf(i) : i \in EntriesOf(path)} : r.line = n}

\* C21: in the section of a file, a changed line without coverage data has
\* the classes of an unchanged line, that is none; a changed line with
\* coverage data is marked covered when its hit count is above 0 and
\* uncovered when it is 0.
C21_ChangedLineWithoutDataNotHighlighted ==
    Reported =>
        \A path \in DOMAIN report.sections :
            \A n \in 1..sourceLines :
                LET classes == report.sections[path].lineClasses[n]
                IN  /\ (n \notin changedLines[path] \/ RecordsFor(path, n) = {}) =>
                          classes = {}
                    /\ (n \in changedLines[path] /\ \E r \in RecordsFor(path, n) : r.hit > 0)
                          => ("line-covered" \in classes /\ "line-uncovered" \notin classes)
                    /\ (n \in changedLines[path] /\ \E r \in RecordsFor(path, n) : r.hit = 0)
                          => ("line-uncovered" \in classes /\ "line-covered" \notin classes)

\* C22: the status icon of the section of a file, and the icon of the
\* overall coverage, is the pass icon exactly when the coverage is at least
\* the minimum-coverage that run passes to generateReport.
C22_StatusFollowsMinimumCoverage ==
    Reported =>
        /\ report.summaryIcon = "pass" <=>
              (/\ minimumCoverage.den # 0
               /\ results.coverage.num * minimumCoverage.den >=
                     minimumCoverage.num * results.coverage.den)
        /\ \A path \in DOMAIN report.sections :
              report.sections[path].statusIcon = "pass" <=>
                  (/\ minimumCoverage.den # 0
                   /\ results.fileResults[path].coverage.num * minimumCoverage.den >=
                         minimumCoverage.num * results.fileResults[path].coverage.den)

\* the class and the icon that the three ranges give a coverage
RangeOf(coverage) ==
    IF coverage.num >= 80 * coverage.den THEN <<"coverage-high", "pass">>
    ELSE IF coverage.num >= 50 * coverage.den /\ coverage.num < 80 * coverage.den
    THEN <<"coverage-medium", "warning">>
    ELSE <<"coverage-low", "fail">>

\* C25: the badge class of a coverage is coverage-high from 80 on,
\* coverage-medium from 50 on and below 80, and coverage-low below 50, one
\* class for every coverage, and the icon is the pass, warning and fail
\* icon on the same ranges.
C25_BadgeClassAndIconRanges ==
    /\ Reported =>
          /\ report.summaryBadge = RangeOf(results.coverage)[1]
          /\ report.summaryIcon = RangeOf(results.coverage)[2]
    /\ \A path \in DOMAIN report.sections :
          /\ report.sections[path].fillClass =
                RangeOf(results.fileResults[path].coverage)[1]
          /\ report.sections[path].statusIcon =
                RangeOf(results.fileResults[path].coverage)[2]

\* a report of a file with 4 of 5 changed lines covered: 80 is high
C25_Witness ==
    /\ Reported
    /\ results.totalLines = 5
    /\ results.coveredLines = 4
    /\ report.summaryBadge = "coverage-high"
    /\ report.summaryIcon = "pass"
    /\ report.sections["a.js"].fillClass = "coverage-high"

====
